---- MODULE Spec2Model ----
(***************************************************************************)
(* Mesh adaptation operators of mesh_operators.cpp: the cursor state       *)
(* machine of MeshOperatorSequence and the passes of ThresholdRefiner,     *)
(* ThresholdDerefiner and Rebalancer over a small mesh of bisected         *)
(* elements; and the SimpleSaddle problem of ToroidST.cpp with its three   *)
(* constrained solvers in exact arithmetic.                                *)
(***************************************************************************)
EXTENDS Integers, Sequences, FiniteSets, TLC

\* ------------------------------------------------------------------ bounds
\* Longest operator list the sequence is built with.
MaxLen == 3
\* Most CONTINUE/REPEAT results the child operators yield in one campaign
\* before they settle.
MaxChanges == 2
\* Most elements (over all workers) of a mesh the refiner is applied to.
MaxNE == 3
\* Largest local error indicator the estimator produces.
MaxErr == 1
\* Workers of a distributed run.
NumRanks == 2
\* Most structural changes a driver lets the mesh go through.
MaxSeq == 3
\* Largest right-hand side entry of the saddle-point problems, besides the
\* ones of the test.
MaxCoef == 2

\* ------------------------------------------------- MeshOperator::Action/Info
NONE == 0
CONTINUE == 1
STOP == 2
REPEAT == 3
MASK_ACTION == 3
REFINED == 4
DEREFINED == 8
REBALANCED == 12
\* ~3 in the four bits an ActionInfo value occupies
MASK_INFO == 12

RECURSIVE BitAnd(_, _)
BitAnd(a, b) ==
  IF a = 0 \/ b = 0 THEN 0
  ELSE (a % 2) * (b % 2) + 2 * BitAnd(a \div 2, b \div 2)

RECURSIVE BitOr(_, _)
BitOr(a, b) ==
  IF a = 0 THEN b
  ELSE IF b = 0 THEN a
  ELSE (IF (a % 2) + (b % 2) > 0 THEN 1 ELSE 0) + 2 * BitOr(a \div 2, b \div 2)

\* mod & MASK_ACTION and mod & MASK_INFO
ActionOf(m) == BitAnd(m, MASK_ACTION)
InfoOf(m) == BitAnd(m, MASK_INFO)

Actions == {NONE, CONTINUE, STOP, REPEAT}
Infos == {0, REFINED, DEREFINED, REBALANCED}
\* every ActionInfo value a child ApplyImpl can return
Mods == {a + i : a \in Actions, i \in Infos}

\* ------------------------------------------------------------------- state
VARIABLES
  sequence,     \* the child operators: what each may return
  changes_left, \* CONTINUE/REPEAT results the children may still yield
  step,         \* MeshOperatorSequence::step, the cursor
  pc,           \* "idle", or "next_step" inside MeshOperatorSequence::ApplyImpl
  result,       \* value returned by the last MeshOperatorSequence::ApplyImpl
  child_mod,    \* local mod: value returned by the child applied last
  applied,      \* index of the child applied last, -1 before any
  first,        \* index of the first child applied in the current invocation
  calls,        \* child applications in the current invocation
  phase,        \* history of the driver's calls (see Apply and Reset)
  prev_child,   \* child that ended the previous invocation, -1 if none
  prev_mod,     \* action that child returned
  settled,      \* per child: returned NONE and the mesh is unchanged since
  quiet_start,  \* no child could change anything when the invocation began
  entry,        \* mesh sequence number when the invocation began
  mesh,         \* Mesh: elements, sequence number, conformity, distribution
  est,          \* ErrorEstimator: cached local errors and their sequence
  conf,         \* ThresholdRefiner: configuration members
  marked_elements,      \* ThresholdRefiner::marked_elements, per worker
  num_marked_elements,  \* ThresholdRefiner::num_marked_elements, per worker
  threshold,            \* ThresholdRefiner::threshold, per worker
  current_sequence,     \* ThresholdRefiner::current_sequence, per worker
  ref_mod,      \* value returned by the last ThresholdRefiner::ApplyImpl
  pre,          \* the mesh that call was given
  dconf,        \* ThresholdDerefiner: configuration members
  deref_mod,    \* value returned by the last ThresholdDerefiner::ApplyImpl
  reb_mod,      \* value returned by the last Rebalancer::ApplyImpl
  last_call,    \* the operator applied last and the mesh it was given
  saddle,       \* SimpleSaddle: rhs, dualrhs, truex, truey, truelambda
  solved        \* the solver run last: sol, lambda and the errors reported

seq_vars == <<sequence, changes_left, step, pc, result, child_mod, applied,
              first, calls, phase, prev_child, prev_mod, settled, quiet_start,
              entry>>

ref_vars == <<mesh, est, conf, marked_elements, num_marked_elements,
              threshold, current_sequence, ref_mod, pre>>

op_vars == <<dconf, deref_mod, reb_mod, last_call>>

sad_vars == <<saddle, solved>>

vars == <<seq_vars, ref_vars, op_vars, sad_vars>>

Size == Len(sequence)

\* A child operator is known by its contract only: it may return NONE at
\* any time, STOP only if `stops', and CONTINUE or REPEAT while the children
\* have changes left to make (each child changes the mesh finitely often).
Child == [stops : BOOLEAN]

ChildMayReturn(c, left, m) ==
  LET a == ActionOf(m) IN
    \/ a = NONE
    \/ a = STOP /\ c.stops
    \/ a \in {CONTINUE, REPEAT} /\ left > 0

ChangesAfter(left, m) ==
  IF ActionOf(m) \in {CONTINUE, REPEAT} THEN left - 1 ELSE left

\* MeshOperator::Reset() of the children: a new campaign, they may change
\* the mesh again.
ChangesAfterReset == MaxChanges

\* --------------------------------------- MeshOperatorSequence::ApplyImpl
\* step = (step + 1) % sequence.Size();
NextCursor(s, n) == (s + 1) % n

\* bool last = (step == sequence.Size() - 1);
IsLastOff(s, n) == s = n

IsLast(s, n) == s = n - 1

\* case CONTINUE: return last ? mod : (REPEAT | (mod & MASK_INFO));
OnContinueNoInfo(m, last) == IF last THEN m ELSE REPEAT

OnContinue(m, last) ==
  IF last THEN m ELSE BitOr(REPEAT, BitAnd(m, MASK_INFO))

\* the value the switch returns; on NONE of a child that is not the last the
\* switch does not return (goto next_step)
Returned(m, last) ==
  CASE ActionOf(m) = NONE     -> NONE
    [] ActionOf(m) = CONTINUE -> OnContinue(m, last)
    [] ActionOf(m) = STOP     -> STOP
    [] ActionOf(m) = REPEAT   -> m

\* does the switch return?  case NONE: if (last) { return NONE; } goto next_step;
ReturnsAlways(m, last) == TRUE

ReturnsOnChange(m, last) == ActionOf(m) \in {CONTINUE, REPEAT} \/ last

ReturnsUnlessNone(m, last) == ActionOf(m) /= NONE

Returns(m, last) == ActionOf(m) /= NONE \/ last

\* case REPEAT: --step; return mod;
CursorAfterBack(m, s) ==
  IF ActionOf(m) \in {REPEAT, CONTINUE} THEN s - 1 ELSE s

CursorAfterStay(m, s) == s

CursorAfter(m, s) == IF ActionOf(m) = REPEAT THEN s - 1 ELSE s

\* ResetCursor: step = 0; in MeshOperatorSequence::Reset
ResetCursor == 0

\* The last call of the driver was an Apply (no Reset since).
Started == phase \in {"initial", "running", "fresh", "rerunning"}

\* The current invocation follows another one directly.
Reinvoked == phase \in {"running", "rerunning"}

\* Reset() was never called.
FirstCampaign == phase \in {"constructed", "initial", "running"}

\* No child can change the mesh or stop any more: each returns NONE on every
\* application.
Quiescent ==
  changes_left = 0 /\ \A i \in 1..Size : ~sequence[i].stops

\* The driver calls Apply(mesh): ApplyImpl is entered.
Apply ==
  /\ pc = "idle"
  /\ phase' = CASE phase = "constructed"           -> "initial"
                [] phase \in {"initial", "running"} -> "running"
                [] phase = "reset"                 -> "fresh"
                [] phase \in {"fresh", "rerunning"} -> "rerunning"
  /\ calls' = 0
  /\ prev_child' = IF Started /\ calls > 0 THEN applied ELSE -1
  /\ prev_mod' = IF Started /\ calls > 0 THEN ActionOf(child_mod) ELSE NONE
  /\ quiet_start' = Quiescent
  /\ entry' = mesh.sequence
  /\ IF Size = 0
     THEN /\ result' = NONE
          /\ pc' = "idle"
     ELSE /\ pc' = "next_step"
          /\ UNCHANGED result
  /\ UNCHANGED <<sequence, changes_left, step, child_mod, applied, first,
                 settled>>
  /\ UNCHANGED <<ref_vars, op_vars, sad_vars>>

\* One pass from the label next_step, given the value m the child at the
\* advanced cursor returns: the switch returns or jumps back to next_step.
Switch(m) ==
  /\ pc = "next_step"
  /\ LET s == NextCursor(step, Size)
         last == IsLast(s, Size)
         a == ActionOf(m)
     IN /\ s \in 0..(Size - 1)
        /\ child_mod' = m
        /\ applied' = s
        /\ first' = IF calls = 0 THEN s ELSE first
        /\ calls' = IF calls <= Size THEN calls + 1 ELSE calls
        /\ settled' = IF a \in {CONTINUE, REPEAT}
                      THEN [i \in 1..Size |-> FALSE]
                      ELSE [settled EXCEPT ![s + 1] = (a = NONE)]
        /\ step' = CursorAfter(m, s)
        /\ IF Returns(m, last)
           THEN /\ result' = Returned(m, last)
                /\ pc' = "idle"
           ELSE /\ pc' = "next_step"
                /\ UNCHANGED result
  /\ UNCHANGED <<sequence, phase, prev_child, prev_mod, quiet_start, entry>>

\* One pass from the label next_step: the cursor advances, the child there is
\* applied and returns m, and the switch returns or jumps back to next_step.
NextStep(m) ==
  /\ pc = "next_step"
  /\ ChildMayReturn(sequence[NextCursor(step, Size) + 1], changes_left, m)
  /\ changes_left' = ChangesAfter(changes_left, m)
  /\ Switch(m)
  /\ UNCHANGED <<ref_vars, op_vars, sad_vars>>

\* MeshOperatorSequence::Reset(), the members of the sequence: step = 0.
SeqReset ==
  /\ pc = "idle"
  /\ settled' = [i \in 1..Size |-> FALSE]
  /\ step' = ResetCursor
  /\ phase' = "reset"
  /\ UNCHANGED <<sequence, pc, result, child_mod, applied, first, calls,
                 prev_child, prev_mod, quiet_start, entry>>

\* MeshOperatorSequence::Reset(): every child is reset, then step = 0.
Reset ==
  /\ changes_left' = ChangesAfterReset
  /\ SeqReset
  /\ UNCHANGED <<ref_vars, op_vars, sad_vars>>

\* MeshOperatorSequence() : step(-1); the list is built with Append().
SeqInitFrom(children, lens, budgets) ==
  /\ \E n \in lens : sequence \in [1..n -> children]
  /\ changes_left \in budgets
  /\ step = -1
  /\ pc = "idle"
  /\ result = NONE
  /\ child_mod = NONE
  /\ applied = -1
  /\ first = -1
  /\ calls = 0
  /\ phase = "constructed"
  /\ prev_child = -1
  /\ prev_mod = NONE
  /\ settled = [i \in 1..Size |-> FALSE]
  /\ quiet_start = FALSE
  /\ entry = -1

SeqInit(lens, budgets) == SeqInitFrom(Child, lens, budgets)

\* ---------------------------------------------------------------- the mesh
\* std::numeric_limits<long>::max(), std::numeric_limits<double>::max() and
\* infinity(), as numbers beyond every count, depth, coordinate and norm
\* order of the model
LongMax == 1000000
DoubleMax == 1000000
Infinity == 2000000

\* total_fraction = 0.5; total_err_goal = 0.0; local_err_goal = 0.0;
TotalFractionNum == 1
TotalFractionDen == 2
TotalErrGoal == 0
LocalErrGoal == 0

\* Edge length of a root element; a bisection halves it.
Width == 2 ^ MaxNE

\* depth limit set together with a window: elements less deep ignore it
RangeLevels == 1

Max(a, b) == IF a >= b THEN a ELSE b

\* The sum of f over 1..n
RECURSIVE SumFrom(_, _, _)
SumFrom(f, i, n) == IF i > n THEN 0 ELSE f[i] + SumFrom(f, i + 1, n)

MaxOver(f, S) ==
  IF S = {} THEN 0 ELSE CHOOSE v \in {f[x] : x \in S} : \A x \in S : f[x] <= v

\* The workers that hold a part of the mesh: one for a serial Mesh.
Ranks == IF mesh.par THEN 1..NumRanks ELSE {1}

\* The two root elements, one above the other: mesh.elems[r] are the
\* elements worker r holds, in local order (local element el is
\* mesh.elems[r][el + 1]).  In a distributed mesh each of the first two
\* workers holds one root.
RootElements(par) ==
  LET lower == [depth |-> 0, x0 |-> 0, x1 |-> Width, y0 |-> 0, y1 |-> Width]
      upper == [depth |-> 0, x0 |-> 0, x1 |-> Width, y0 |-> Width,
                y1 |-> 2 * Width]
  IN IF par
     THEN [r \in 1..NumRanks |->
             IF r = 1 THEN <<lower>> ELSE IF r = 2 THEN <<upper>> ELSE <<>>]
     ELSE [r \in {1} |-> <<lower, upper>>]

\* mesh.GetNE()
GetNE(elems, r) == Len(elems[r])

\* mesh.ReduceInt(value): the sum over the workers (the value itself on a
\* serial mesh)
ReduceInt(f, ranks) == SumFrom(f, 1, Cardinality(ranks))

\* mesh.GetGlobalNE()
GetGlobalNE(elems, ranks) ==
  ReduceInt([r \in ranks |-> GetNE(elems, r)], ranks)

\* mesh.ncmesh->GetElementDepth(el)
GetElementDepth(e) == e.depth

\* fes->GetElementDofs(el, dofs); mesh.GetNode(dofs[j], vert): the vertices
ElementNodes(e) ==
  << <<e.x0, e.y0>>, <<e.x1, e.y0>>, <<e.x1, e.y1>>, <<e.x0, e.y1>> >>

\* mesh.GeneralRefinement(marked_elements, ...) on one worker: every marked
\* element is bisected into two children one level deeper.
RECURSIVE RefineFrom(_, _, _)
RefineFrom(loc, S, i) ==
  IF i > Len(loc) THEN <<>>
  ELSE LET e == loc[i]
           mid == (e.x0 + e.x1) \div 2
       IN (IF (i - 1) \in S
           THEN << [e EXCEPT !.depth = e.depth + 1, !.x1 = mid],
                   [e EXCEPT !.depth = e.depth + 1, !.x0 = mid] >>
           ELSE << e >>) \o RefineFrom(loc, S, i + 1)

GeneralRefinement(elems, marked, ranks) ==
  [r \in ranks |->
     RefineFrom(elems[r], {marked[r][k] : k \in 1..Len(marked[r])}, 1)]

\* The estimator's vector of one error per element, cut into the workers'
\* local_err vectors.
RECURSIVE Before(_, _)
Before(elems, r) ==
  IF r = 1 THEN 0 ELSE Before(elems, r - 1) + Len(elems[r - 1])

SplitByRank(v, elems, ranks) ==
  [r \in ranks |->
     SubSeq(v, Before(elems, r) + 1, Before(elems, r) + Len(elems[r]))]

\* ------------------------------------------------------- ThresholdRefiner
\* Vector::Normlp(p) for p = 1 and p = infinity (the errors are >= 0)
Normlp(v, p) ==
  IF p < Infinity THEN SumFrom(v, 1, Len(v)) ELSE MaxOver(v, DOMAIN v)

\* ThresholdRefiner::GetNorm: ParNormlp over the workers of a ParMesh,
\* local_err.Normlp on a serial mesh
GetNorm(err, p, ranks) ==
  LET loc == [r \in ranks |-> Normlp(err[r], p)]
  IN IF p < Infinity THEN ReduceInt(loc, ranks) ELSE MaxOver(loc, ranks)

\* if (num_elements >= max_elements) { return STOP; }
AtCapStrict(num_elements, max_elements) == num_elements > max_elements

AtCap(num_elements, max_elements) == num_elements >= max_elements

\* if (total_err <= total_err_goal) { return STOP; }
GoalMet(total_err, total_err_goal) == total_err <= total_err_goal

\* threshold, as the fraction num/den:
\*   max(total_err * total_fraction * pow(num_elements, -1.0/p), local_err_goal)
\* for the finite p = 1, max(total_err * total_fraction, local_err_goal) else
ComputeThreshold(total_err, num_elements, c) ==
  IF c.total_norm_p < Infinity
  THEN [num |-> Max(total_err * TotalFractionNum,
                    c.local_err_goal * TotalFractionDen * num_elements),
        den |-> TotalFractionDen * num_elements]
  ELSE [num |-> Max(total_err * TotalFractionNum,
                    c.local_err_goal * TotalFractionDen),
        den |-> TotalFractionDen]

\* local_err(el) > threshold
Exceeds(e_err, thr) == e_err * thr.den > thr.num

\* sum of coordinate k over the nodes of the element; the mean is the sum
\* over ndof
RECURSIVE NodeSum(_, _, _)
NodeSum(nodes, k, j) ==
  IF j > Len(nodes) THEN 0 ELSE nodes[j][k] + NodeSum(nodes, k, j + 1)

\* (mean > lo && mean < hi), mean = sum/ndof
MeanInsideClosed(sum, ndof, lo, hi) == sum >= lo * ndof /\ sum <= hi * ndof

MeanInside(sum, ndof, lo, hi) == sum > lo * ndof /\ sum < hi * ndof

\* The three branches of the marking loop for one element.
MarksElement(e, e_err, thr, nc, c) ==
  IF (c.yRange \/ c.xRange) /\ nc
  THEN LET nodes == ElementNodes(e)
           ndof == Len(nodes)
           ySum == NodeSum(nodes, 2, 1)
           xSum == NodeSum(nodes, 1, 1)
           elementLevel == GetElementDepth(e)
       IN /\ Exceeds(e_err, thr)
          /\ elementLevel < c.amr_levels
          /\ GetElementDepth(e) < c.amr_levels
          /\ (MeanInside(ySum, ndof, c.ymin, c.ymax)
                \/ elementLevel < c.yRange_levels)
          /\ (MeanInside(xSum, ndof, c.xmin, c.xmax)
                \/ elementLevel < c.xRange_levels)
  ELSE IF nc
  THEN Exceeds(e_err, thr) /\ GetElementDepth(e) < c.amr_levels
  ELSE Exceeds(e_err, thr)

\* for (int el = 0; el < NE; el++) { ... marked_elements.Append(Refinement(el)); }
MarkedOf(loc, local_err, thr, nc, c) ==
  SelectSeq([k \in 1..Len(loc) |-> k - 1],
            LAMBDA el : MarksElement(loc[el + 1], local_err[el + 1], thr,
                                     nc, c))

\* return STOP before anything is marked: the members as ApplyImpl has set
\* them at its start
StoppedEarly ==
  [mod |-> STOP, marked |-> <<>>, num_marked |-> 0,
   threshold |-> [num |-> 0, den |-> 1]]

\* num_marked_elements = mesh.ReduceInt(marked_elements.Size());
\* if (num_marked_elements == 0) { return STOP; } ... return CONTINUE + REFINED;
AfterMarkingLocal(marked, thr, r, ranks) ==
  LET n == Len(marked[r])
  IN [mod |-> IF n = 0 THEN STOP ELSE CONTINUE + REFINED,
      marked |-> marked[r], num_marked |-> n, threshold |-> thr]

AfterMarking(marked, thr, r, ranks) ==
  LET n == ReduceInt([q \in ranks |-> Len(marked[q])], ranks)
  IN [mod |-> IF n = 0 THEN STOP ELSE CONTINUE + REFINED,
      marked |-> marked[r], num_marked |-> n, threshold |-> thr]

\* What ThresholdRefiner::ApplyImpl leaves on each worker: the value
\* returned and the members it sets.
RefinerOutcome(m, err, c, ranks) ==
  LET num_elements == GetGlobalNE(m.elems, ranks)
  IN IF AtCap(num_elements, c.max_elements)
     THEN [r \in ranks |-> StoppedEarly]
     ELSE LET total_err == GetNorm(err, c.total_norm_p, ranks)
          IN IF GoalMet(total_err, c.total_err_goal)
             THEN [r \in ranks |-> StoppedEarly]
             ELSE LET thr == ComputeThreshold(total_err, num_elements, c)
                      marked == [q \in ranks |->
                                   MarkedOf(m.elems[q], err[q], thr, m.nc, c)]
                  IN [r \in ranks |-> AfterMarking(marked, thr, r, ranks)]

\* ErrorEstimator::GetLocalErrors(): the estimates are computed again when
\* the mesh sequence number is not the one they were computed for.
MeshIsModifiedInSize(e, m) ==
  \E r \in DOMAIN m.elems : Len(e.err[r]) /= Len(m.elems[r])

MeshIsModified(e, m) == e.seq /= m.sequence

\* ThresholdRefiner::ApplyImpl(mesh), called by all workers together.  The
\* estimator recomputes its errors when the mesh has changed since it last
\* did (estimator.GetLocalErrors()), and is not asked at the element cap.
RefinerCall ==
  /\ \E num_elements \in {GetGlobalNE(mesh.elems, Ranks)} :
     num_elements <= MaxNE /\
     \E asked \in {~AtCap(num_elements, conf.max_elements)} :
     \E recomputed \in IF asked /\ MeshIsModified(est, mesh)
                       THEN [1..num_elements -> 0..MaxErr] ELSE {<<>>} :
     \E err \in {IF asked /\ MeshIsModified(est, mesh)
                 THEN SplitByRank(recomputed, mesh.elems, Ranks)
                 ELSE est.err} :
     \E out \in {RefinerOutcome(mesh, err, conf, Ranks)} :
       /\ est' = IF asked /\ MeshIsModified(est, mesh)
                 THEN [err |-> err, seq |-> mesh.sequence] ELSE est
       /\ marked_elements' = [r \in Ranks |-> out[r].marked]
       /\ num_marked_elements' = [r \in Ranks |-> out[r].num_marked]
       /\ threshold' = [r \in Ranks |-> out[r].threshold]
       /\ current_sequence' = [r \in Ranks |-> mesh.sequence]
       /\ ref_mod' = [r \in Ranks |-> out[r].mod]
       /\ pre' = [called |-> TRUE, asked |-> asked, elems |-> mesh.elems,
                  sequence |-> mesh.sequence]
       /\ last_call' = [op |-> "refiner", read |-> asked,
                        elems |-> mesh.elems, sequence |-> mesh.sequence,
                        local_err |-> err,
                        err_sequence |-> IF MeshIsModified(est, mesh)
                                         THEN mesh.sequence ELSE est.seq]
       /\ IF \E r \in Ranks : out[r].mod /= STOP
          THEN mesh' = [mesh EXCEPT
                 !.elems = GeneralRefinement(
                             mesh.elems, [r \in Ranks |-> out[r].marked],
                             Ranks),
                 !.sequence = mesh.sequence + 1]
          ELSE UNCHANGED mesh
  /\ UNCHANGED <<conf, dconf, deref_mod, reb_mod, sad_vars>>

RefinerApply == RefinerCall /\ UNCHANGED seq_vars

\* ThresholdRefiner::Reset(): estimator.Reset() makes the estimator recompute
\* at its next use; marked_elements is left as it is.
RefinerResetCall ==
  /\ est' = [est EXCEPT !.seq = -1]
  /\ current_sequence' = [r \in Ranks |-> -1]
  /\ num_marked_elements' = [r \in Ranks |-> 0]
  /\ UNCHANGED <<mesh, conf, marked_elements, threshold, ref_mod, pre,
                 op_vars, sad_vars>>

RefinerReset == RefinerResetCall /\ UNCHANGED seq_vars

\* ----------------------------------------------------- ThresholdDerefiner
\* The aggregation operator of DerefineByError over the two children of a
\* coarsened element: op = 1 their sum, op = 2 their maximum.
OpSum == 1
OpMax == 2

Combine(op, a, b) == IF op = OpSum THEN a + b ELSE Max(a, b)

\* Elements i and i + 1 of a worker are the two children of one bisected
\* element.
Siblings(loc, i) ==
  /\ i < Len(loc)
  /\ loc[i].depth > 0 /\ loc[i + 1].depth = loc[i].depth
  /\ loc[i].y0 = loc[i + 1].y0 /\ loc[i].y1 = loc[i + 1].y1
  /\ loc[i].x1 = loc[i + 1].x0
  /\ loc[i].x1 - loc[i].x0 = loc[i + 1].x1 - loc[i + 1].x0
  /\ loc[i].x0 % (2 * (loc[i].x1 - loc[i].x0)) = 0

\* const double true_threshold = std::max(total_err * total_fraction, threshold);
\* as the fraction num/den
TrueThreshold(total_err, d) ==
  [num |-> Max(total_err * d.fraction_num, d.threshold * TotalFractionDen),
   den |-> TotalFractionDen]

\* the combined error stays below the threshold
Below(e_err, thr) == e_err * thr.den < thr.num

\* The first children of the pairs Mesh::DerefineByError coarsens on one
\* worker.
Derefined(loc, local_err, thr, op) ==
  {i \in 1..Len(loc) :
     /\ Siblings(loc, i)
     /\ Below(Combine(op, local_err[i], local_err[i + 1]), thr)}

\* Mesh::DerefineByError on one worker: each such pair becomes its parent.
RECURSIVE CoarsenFrom(_, _, _)
CoarsenFrom(loc, D, i) ==
  IF i > Len(loc) THEN <<>>
  ELSE IF i \in D
  THEN << [loc[i] EXCEPT !.depth = loc[i].depth - 1, !.x1 = loc[i + 1].x1] >>
         \o CoarsenFrom(loc, D, i + 2)
  ELSE << loc[i] >> \o CoarsenFrom(loc, D, i + 1)

\* bool derefs = mesh.DerefineByError(local_err, true_threshold, nc_limit, op);
\* the pairs coarsened on each worker
DerefineByError(elems, err, thr, op, ranks) ==
  [r \in ranks |-> Derefined(elems[r], err[r], thr, op)]

\* if (mesh.Conforming()) { return NONE; }
ConformingNever(nc) == FALSE

ConformingOut(nc) == ~nc

\* return derefs ? CONTINUE + DEREFINED : NONE;
DerefReturnAlways(derefs) == CONTINUE + DEREFINED

DerefReturn(derefs) == IF derefs THEN CONTINUE + DEREFINED ELSE NONE

\* ThresholdDerefiner::ApplyImpl(mesh), called by all workers together.
DerefinerCall ==
  /\ \E skipped \in {ConformingOut(mesh.nc)} :
     \E recomputed \in IF ~skipped /\ MeshIsModified(est, mesh)
                       THEN [1..GetGlobalNE(mesh.elems, Ranks) -> 0..MaxErr]
                       ELSE {<<>>} :
     \E err \in {IF ~skipped /\ MeshIsModified(est, mesh)
                 THEN SplitByRank(recomputed, mesh.elems, Ranks)
                 ELSE est.err} :
     \E pairs \in {IF skipped THEN [r \in Ranks |-> {}]
                   ELSE DerefineByError(
                          mesh.elems, err,
                          TrueThreshold(GetNorm(err, dconf.total_norm_p,
                                                Ranks), dconf),
                          dconf.op, Ranks)} :
     \E derefs \in {\E r \in Ranks : pairs[r] /= {}} :
       /\ est' = IF ~skipped /\ MeshIsModified(est, mesh)
                 THEN [err |-> err, seq |-> mesh.sequence] ELSE est
       /\ deref_mod' = [r \in Ranks |->
                          IF skipped THEN NONE ELSE DerefReturn(derefs)]
       /\ last_call' = [op |-> "derefiner", read |-> ~skipped,
                        elems |-> mesh.elems, sequence |-> mesh.sequence,
                        local_err |-> err,
                        err_sequence |-> IF MeshIsModified(est, mesh)
                                         THEN mesh.sequence ELSE est.seq]
       /\ IF derefs
          THEN mesh' = [mesh EXCEPT
                 !.elems = [r \in Ranks |->
                              CoarsenFrom(mesh.elems[r], pairs[r], 1)],
                 !.sequence = mesh.sequence + 1]
          ELSE UNCHANGED mesh
  /\ UNCHANGED <<conf, marked_elements, num_marked_elements, threshold,
                 current_sequence, ref_mod, pre, dconf, reb_mod, sad_vars>>

DerefinerApply == DerefinerCall /\ UNCHANGED seq_vars

\* ------------------------------------------------------------- Rebalancer
\* All elements of the mesh, in the order of the workers.
RECURSIVE AllElements(_, _)
AllElements(elems, r) ==
  IF r = 0 THEN <<>> ELSE AllElements(elems, r - 1) \o elems[r]

\* pmesh->Rebalance(): the elements are dealt out again, evenly and in
\* order, over the workers.
Rebalance(elems, ranks) ==
  LET k == Cardinality(ranks)
      all == AllElements(elems, k)
      n == Len(all)
  IN [r \in ranks |-> SubSeq(all, ((r - 1) * n) \div k + 1, (r * n) \div k)]

\* if (pmesh && pmesh->Nonconforming())
NeedsRebalanceAnyMesh(par, nc) == nc

NeedsRebalance(par, nc) == par /\ nc

\* Rebalancer::ApplyImpl(mesh), called by all workers together.
RebalancerCall ==
  /\ IF NeedsRebalance(mesh.par, mesh.nc)
     THEN /\ mesh' = [mesh EXCEPT !.elems = Rebalance(mesh.elems, Ranks),
                                  !.sequence = mesh.sequence + 1]
          /\ reb_mod' = [r \in Ranks |-> CONTINUE + REBALANCED]
     ELSE /\ UNCHANGED mesh
          /\ reb_mod' = [r \in Ranks |-> NONE]
  /\ last_call' = [op |-> "rebalancer", read |-> FALSE,
                   elems |-> mesh.elems, sequence |-> mesh.sequence,
                   local_err |-> est.err, err_sequence |-> est.seq]
  /\ UNCHANGED <<est, conf, marked_elements, num_marked_elements, threshold,
                 current_sequence, ref_mod, pre, dconf, deref_mod, sad_vars>>

RebalancerApply == RebalancerCall /\ UNCHANGED seq_vars

\* ThresholdDerefiner(est) and the setters a driver calls: the absolute
\* threshold, the scaling of the aggregate error, the norm order and the
\* aggregation operator.
DerefInit(thresholds, fractions, ps, ops) ==
  /\ \E t \in thresholds, f \in fractions, p \in ps, o \in ops :
       dconf = [threshold |-> t, fraction_num |-> f, total_norm_p |-> p,
                op |-> o]
  /\ deref_mod = [r \in Ranks |-> NONE]
  /\ reb_mod = [r \in Ranks |-> NONE]
  /\ last_call = [op |-> "none", read |-> FALSE,
                  elems |-> [r \in Ranks |-> <<>>], sequence |-> -1,
                  local_err |-> [r \in Ranks |-> <<>>], err_sequence |-> -1]

\* ThresholdRefiner::ThresholdRefiner(est), then the setters a driver calls:
\* an element cap, a depth cap, a norm order and windows in x and y (each
\* with its depth limit).  The mesh is the two root elements.
RefInit(pars, ncs, max_elems, levels, xs, ys, ps) ==
  /\ \E par \in pars, nc \in ncs :
       mesh = [elems |-> RootElements(par), sequence |-> 0, nc |-> nc,
               par |-> par]
  /\ est = [err |-> [r \in Ranks |-> <<>>], seq |-> -1]
  /\ \E me \in max_elems, al \in levels, xr \in xs, yr \in ys, p \in ps :
       conf = [total_norm_p |-> p,
               total_err_goal |-> TotalErrGoal,
               local_err_goal |-> LocalErrGoal,
               max_elements |-> me,
               amr_levels |-> al,
               xRange |-> xr,
               xRange_levels |-> IF xr THEN RangeLevels ELSE LongMax,
               xmin |-> IF xr THEN Width \div 4 ELSE -DoubleMax,
               xmax |-> IF xr THEN Width ELSE DoubleMax,
               yRange |-> yr,
               yRange_levels |-> IF yr THEN RangeLevels ELSE LongMax,
               ymin |-> IF yr THEN 0 ELSE -DoubleMax,
               ymax |-> IF yr THEN Width ELSE DoubleMax]
  /\ marked_elements = [r \in Ranks |-> <<>>]
  /\ num_marked_elements = [r \in Ranks |-> 0]
  /\ threshold = [r \in Ranks |-> [num |-> 0, den |-> 1]]
  /\ current_sequence = [r \in Ranks |-> -1]
  /\ ref_mod = [r \in Ranks |-> NONE]
  /\ pre = [called |-> FALSE, asked |-> FALSE,
            elems |-> [r \in Ranks |-> <<>>], sequence |-> -1]

\* ------------------------------------------- SimpleSaddle (ToroidST.cpp)
\* Exact fractions num/den in lowest terms, den > 0, for the doubles of the
\* test.
Abs(n) == IF n < 0 THEN -n ELSE n

RECURSIVE Gcd(_, _)
Gcd(a, b) == IF b = 0 THEN a ELSE Gcd(b, a % b)

Rat(n, d) ==
  LET g == Gcd(Abs(n), Abs(d))
      sgn == IF d < 0 THEN -1 ELSE 1
  IN [num |-> sgn * (n \div g), den |-> sgn * (d \div g)]

RInt(n) == [num |-> n, den |-> 1]
RAdd(a, b) == Rat(a.num * b.den + b.num * a.den, a.den * b.den)
RSub(a, b) == Rat(a.num * b.den - b.num * a.den, a.den * b.den)
RMul(a, b) == Rat(a.num * b.num, a.den * b.den)
RDiv(a, b) == Rat(a.num * b.den, a.den * b.num)
RAbsLess(a, b) == Abs(a.num) * b.den < b.num * a.den

\* the literal 0.5
Half == Rat(1, 2)

\* A.Add(0, 0, 1.0); A.Add(1, 1, 1.0);  B.Add(0, 0, 1.0); B.Add(0, 1, 1.0);
MatA == << <<RInt(1), RInt(0)>>, <<RInt(0), RInt(1)>> >>
MatB == <<RInt(1), RInt(1)>>

\* truex = 0.5 * alpha - 0.5 * beta; truey = -0.5 * alpha + 0.5 * beta;
\* truelambda = 0.5 * (alpha + beta);
TrueX(alpha, beta) == RSub(RMul(Half, RInt(alpha)), RMul(Half, RInt(beta)))
TrueY(alpha, beta) == RAdd(RMul(RInt(-1), RMul(Half, RInt(alpha))),
                           RMul(Half, RInt(beta)))
TrueLambda(alpha, beta) == RMul(Half, RInt(alpha + beta))

\* SimpleSaddle::SetConstraintRHS: truelambda - 0.5 * dualrhs(0) and
\* truex + 0.5 * dualrhs(0), truey + 0.5 * dualrhs(0)
ShiftedDualNone(t, g) == t

ShiftedDual(t, g) == RSub(t, RMul(Half, RInt(g)))

ShiftedPrimalNone(t, g) == t

ShiftedPrimal(t, g) == RAdd(t, RMul(Half, RInt(g)))

Dot(u, v) == RAdd(RMul(u[1], v[1]), RMul(u[2], v[2]))
MatVec(M, v) == <<Dot(M[1], v), Dot(M[2], v)>>

\* the inverse of a 2 x 2 matrix
Inv2(M) ==
  LET det == RSub(RMul(M[1][1], M[2][2]), RMul(M[1][2], M[2][1]))
  IN << <<RDiv(M[2][2], det), RDiv(RMul(RInt(-1), M[1][2]), det)>>,
        <<RDiv(RMul(RInt(-1), M[2][1]), det), RDiv(M[1][1], det)>> >>

\* SchurConstrainedSolver: lambda = (B A^-1 B^T)^-1 (B A^-1 f - g),
\* x = A^-1 (f - B^T lambda)
SchurSolve(A, B, f, g) ==
  LET Ainv == Inv2(A)
      S == Dot(B, MatVec(Ainv, B))
      lam == RDiv(RSub(Dot(B, MatVec(Ainv, f)), g), S)
  IN [sol |-> MatVec(Ainv, <<RSub(f[1], RMul(B[1], lam)),
                             RSub(f[2], RMul(B[2], lam))>>),
      lambda |-> lam]

\* EliminationCGSolver with one primary dof p and one secondary dof q: the
\* constraint gives x_q = (g - B_p x_p) / B_q, the reduced equation
\* P^T A P x_p = P^T (f - A xt) with P = (1, -B_p/B_q) and xt = (0, g/B_q)
\* gives x_p, and lambda = (f_q - (A x)_q) / B_q
EliminationSolve(A, B, f, g, p, q) ==
  LET P == [i \in {p, q} |->
              IF i = p THEN RInt(1)
              ELSE RMul(RInt(-1), RDiv(B[p], B[q]))]
      xt == [i \in {p, q} |-> IF i = p THEN RInt(0) ELSE RDiv(g, B[q])]
      AP == MatVec(A, <<P[1], P[2]>>)
      Axt == MatVec(A, <<xt[1], xt[2]>>)
      reduced == Dot(<<P[1], P[2]>>, AP)
      reduced_rhs == Dot(<<P[1], P[2]>>,
                         <<RSub(f[1], Axt[1]), RSub(f[2], Axt[2])>>)
      xp == RDiv(reduced_rhs, reduced)
      x == [i \in {p, q} |-> RAdd(RMul(P[i], xp), xt[i])]
      Ax == MatVec(A, <<x[1], x[2]>>)
  IN [sol |-> <<x[1], x[2]>>,
      lambda |-> RDiv(RSub(f[q], Ax[q]), B[q])]

\* primary[0] = 0; secondary[0] = 1; (as indices from 1)
Primary == 1
Secondary == 2

\* for (auto pen : {1.e+3, 1.e+4, 1.e+6})
Penalties == {1000, 10000, 1000000}

\* Whole-number polynomials c[1] + c[2] pen + c[3] pen^2 in the penalty
\* parameter: the penalized system is solved with pen as a symbol and the
\* value of pen is put in at the end, which keeps every intermediate number
\* small.
PConst(n) == <<n, 0, 0>>
PPen(n) == <<0, n, 0>>
PAdd(a, b) == <<a[1] + b[1], a[2] + b[2], a[3] + b[3]>>
PSub(a, b) == <<a[1] - b[1], a[2] - b[2], a[3] - b[3]>>
PScale(k, a) == <<k * a[1], k * a[2], k * a[3]>>
\* product of two polynomials of degree one at most
PMul(a, b) ==
  <<a[1] * b[1], a[1] * b[2] + a[2] * b[1], a[2] * b[2]>>
\* pen times a polynomial of degree one at most
PTimesPen(a) == <<0, a[1], a[2]>>
PEval(a, pen) == a[1] + pen * (a[2] + pen * a[3])

\* PenaltyConstrainedSolver: (A + pen B^T B) x = f + pen B^T g solved by
\* Cramer's rule, and lambda = pen (B x - g); A, B, f, g whole numbers
PenaltySolve(A, B, f, g, pen) ==
  LET M == [i \in 1..2 |-> [j \in 1..2 |->
              PAdd(PConst(A[i][j]), PPen(B[i] * B[j]))]]
      r == [i \in 1..2 |-> PAdd(PConst(f[i]), PPen(B[i] * g))]
      det == PSub(PMul(M[1][1], M[2][2]), PMul(M[1][2], M[2][1]))
      xn == PSub(PMul(r[1], M[2][2]), PMul(M[1][2], r[2]))
      yn == PSub(PMul(M[1][1], r[2]), PMul(M[2][1], r[1]))
      ln == PTimesPen(PSub(PAdd(PScale(B[1], xn), PScale(B[2], yn)),
                           PScale(g, det)))
      d == PEval(det, pen)
  IN [sol |-> <<Rat(PEval(xn, pen), d), Rat(PEval(yn, pen), d)>>,
      lambda |-> Rat(PEval(ln, pen), d)]

\* the whole-number entries of A and B
WholeA == [i \in 1..2 |-> [j \in 1..2 |-> MatA[i][j].num]]
WholeB == [i \in 1..2 |-> MatB[i].num]

\* serr(0) = truex - sol(0); serr(1) = truey - sol(1);
\* lerr(0) = truelambda - lambda(0);
Errors(name, pen, out) ==
  [solver |-> name, pen |-> pen, dualrhs |-> saddle.dualrhs,
   sol |-> out.sol, lambda |-> out.lambda,
   serr |-> <<RSub(saddle.truex, out.sol[1]),
              RSub(saddle.truey, out.sol[2])>>,
   lerr |-> RSub(saddle.truelambda, out.lambda)]

Rhs == <<RInt(saddle.alpha), RInt(saddle.beta)>>

\* SimpleSaddle::Schur(serr, lerr)
Schur ==
  /\ solved' = Errors("Schur", 0,
                      SchurSolve(MatA, MatB, Rhs, RInt(saddle.dualrhs)))
  /\ UNCHANGED <<saddle, seq_vars, ref_vars, op_vars>>

\* SimpleSaddle::Elimination(serr, lerr)
Elimination ==
  /\ solved' = Errors("Elimination", 0,
                      EliminationSolve(MatA, MatB, Rhs, RInt(saddle.dualrhs),
                                       Primary, Secondary))
  /\ UNCHANGED <<saddle, seq_vars, ref_vars, op_vars>>

\* SimpleSaddle::Penalty(pen, serr, lerr)
Penalty(pen) ==
  /\ solved' = Errors("Penalty", pen,
                      PenaltySolve(WholeA, WholeB,
                                   <<saddle.alpha, saddle.beta>>,
                                   saddle.dualrhs, pen))
  /\ UNCHANGED <<saddle, seq_vars, ref_vars, op_vars>>

\* SimpleSaddle::SetConstraintRHS(dualrhs_), called once as the test does
SetConstraintRHS(g) ==
  /\ saddle.dualrhs = 0
  /\ saddle' = [saddle EXCEPT
       !.dualrhs = g,
       !.truelambda = ShiftedDual(saddle.truelambda, g),
       !.truex = ShiftedPrimal(saddle.truex, g),
       !.truey = ShiftedPrimal(saddle.truey, g)]
  /\ UNCHANGED <<solved, seq_vars, ref_vars, op_vars>>

\* SimpleSaddle::SimpleSaddle(alpha, beta)
SaddleInit(alphas, betas) ==
  /\ \E alpha \in alphas, beta \in betas :
       saddle = [alpha |-> alpha, beta |-> beta, dualrhs |-> 0,
                 truex |-> TrueX(alpha, beta), truey |-> TrueY(alpha, beta),
                 truelambda |-> TrueLambda(alpha, beta)]
  /\ solved = [solver |-> "none", pen |-> 0, dualrhs |-> 0,
               sol |-> <<RInt(0), RInt(0)>>, lambda |-> RInt(0),
               serr |-> <<RInt(0), RInt(0)>>, lerr |-> RInt(0)]

\* SimpleSaddle problem(4.0, -2.0);
TestAlpha == 4
TestBeta == -2

\* The saddle-point problems of the test and of small right-hand sides
\* around it, solved by the three solvers in any order; the mesh operators
\* are not in use.
SaddleSpecInit ==
  /\ SeqInit({0}, {0})
  /\ RefInit({FALSE}, {FALSE}, {LongMax}, {LongMax}, {FALSE}, {FALSE},
             {Infinity})
  /\ DerefInit({0}, {1}, {Infinity}, {OpSum})
  /\ SaddleInit((-MaxCoef..MaxCoef) \cup {TestAlpha},
                (-MaxCoef..MaxCoef) \cup {TestBeta})

SaddleNext ==
  \/ Schur
  \/ Elimination
  \/ \E pen \in Penalties : Penalty(pen)
  \/ \E g \in 1..MaxCoef : SetConstraintRHS(g)

SaddleSpec == SaddleSpecInit /\ [][SaddleNext]_vars

\* A sequence of generic operators; the refiner is not in use.
Init ==
  /\ SeqInit(0..MaxLen, 0..MaxChanges)
  /\ RefInit({FALSE}, {FALSE}, {LongMax}, {LongMax}, {FALSE}, {FALSE},
             {Infinity})
  /\ DerefInit({0}, {1}, {Infinity}, {OpSum})
  /\ SaddleInit({TestAlpha}, {TestBeta})

Next ==
  \/ Apply
  \/ \E m \in Mods : NextStep(m)
  \/ Reset

Spec == Init /\ [][Next]_vars

\* A ThresholdRefiner on its own, applied again and again by all workers,
\* in every configuration; the operator sequence is not in use.
RefinerInit ==
  /\ SeqInit({0}, {0})
  /\ RefInit(BOOLEAN, BOOLEAN, {MaxNE, LongMax}, {1, LongMax}, BOOLEAN,
             BOOLEAN, {1, Infinity})
  /\ DerefInit({0}, {1}, {Infinity}, {OpSum})
  /\ SaddleInit({TestAlpha}, {TestBeta})

RefinerNext ==
  \/ RefinerApply
  \/ RefinerReset

RefinerSpec == RefinerInit /\ [][RefinerNext]_vars

\* A driver that applies the three operators directly, in any order, to
\* meshes of at most MaxNE elements and through at most MaxSeq structural
\* changes.
OpsInit ==
  /\ SeqInit({0}, {0})
  /\ RefInit(BOOLEAN, BOOLEAN, {LongMax}, {LongMax}, {FALSE}, {FALSE},
             {Infinity})
  /\ DerefInit({0, 1}, {0, 1}, {Infinity}, {OpSum, OpMax})
  /\ SaddleInit({TestAlpha}, {TestBeta})

Bounded ==
  mesh.sequence < MaxSeq /\ GetGlobalNE(mesh.elems, Ranks) <= MaxNE

OpsNext ==
  \/ Bounded /\ RefinerApply
  \/ Bounded /\ DerefinerApply
  \/ Bounded /\ RebalancerApply

OpsSpec == OpsInit /\ [][OpsNext]_vars

\* ------------------------- a MeshOperatorSequence of the three operators
\* The children of the sequence are ThresholdRefiner, ThresholdDerefiner and
\* Rebalancer objects working on the one mesh; of these only the refiner
\* returns STOP.
Kinds == {"refiner", "derefiner", "rebalancer"}

AmrChild == {[stops |-> k = "refiner", kind |-> k] : k \in Kinds}

\* the child at the cursor after step = (step + 1) % sequence.Size()
KindAtNext == sequence[NextCursor(step, Size) + 1].kind

HasKind(k) == \E i \in 1..Size : sequence[i].kind = k

\* int mod = sequence[step]->ApplyImpl(mesh); and the switch, for each kind
\* of child (all workers run the sequence in step and get the same mod)
AmrRefine ==
  /\ pc = "next_step" /\ Bounded /\ KindAtNext = "refiner"
  /\ RefinerCall
  /\ Switch(ref_mod'[1])
  /\ UNCHANGED changes_left

AmrDerefine ==
  /\ pc = "next_step" /\ Bounded /\ KindAtNext = "derefiner"
  /\ DerefinerCall
  /\ Switch(deref_mod'[1])
  /\ UNCHANGED changes_left

AmrRebalance ==
  /\ pc = "next_step" /\ Bounded /\ KindAtNext = "rebalancer"
  /\ RebalancerCall
  /\ Switch(reb_mod'[1])
  /\ UNCHANGED changes_left

\* The driver calls Apply(mesh) on the sequence.
AmrApply == Bounded /\ Apply

\* MeshOperatorSequence::Reset(): sequence[i]->Reset() for every child
\* (ThresholdRefiner::Reset and ThresholdDerefiner::Reset reset the
\* estimator, Rebalancer has nothing to reset), then step = 0.
AmrReset ==
  /\ SeqReset
  /\ est' = IF HasKind("refiner") \/ HasKind("derefiner")
            THEN [est EXCEPT !.seq = -1] ELSE est
  /\ current_sequence' = IF HasKind("refiner")
                         THEN [r \in Ranks |-> -1] ELSE current_sequence
  /\ num_marked_elements' = IF HasKind("refiner")
                            THEN [r \in Ranks |-> 0] ELSE num_marked_elements
  /\ UNCHANGED <<changes_left, mesh, conf, marked_elements, threshold,
                 ref_mod, pre, op_vars, sad_vars>>

\* The sequence owns its operators (the destructor deletes each one), so
\* the one refiner, derefiner and rebalancer are each appended at most once.
AmrInit ==
  /\ SeqInitFrom(AmrChild, 0..MaxLen, {0})
  /\ \A i, j \in 1..Size : sequence[i] = sequence[j] => i = j
  /\ RefInit(BOOLEAN, BOOLEAN, {LongMax}, {LongMax}, {FALSE}, {FALSE},
             {Infinity})
  /\ DerefInit({1}, {1}, {Infinity}, {OpSum})
  /\ SaddleInit({TestAlpha}, {TestBeta})

AmrNext ==
  \/ AmrApply
  \/ AmrRefine
  \/ AmrDerefine
  \/ AmrRebalance
  \/ AmrReset

AmrSpec == AmrInit /\ [][AmrNext]_vars

\* ----------------------------------------------------------------- driver
\* The adaptation loop of a driver: it calls Apply first, and again for as
\* long as the sequence reports CONTINUE or REPEAT.  Every call returns and
\* the loop keeps going, hence the weak fairness of both steps.
DriverApply ==
  /\ phase = "constructed" \/ ActionOf(result) \in {CONTINUE, REPEAT}
  /\ Apply

NextDriver ==
  \/ DriverApply
  \/ \E m \in Mods : NextStep(m)

LiveSpec ==
  /\ Init
  /\ [][NextDriver]_vars
  /\ WF_vars(DriverApply)
  /\ WF_vars(\E m \in Mods : NextStep(m))

\* An Apply call of the driver has returned and nothing was called since.
Reported == pc = "idle" /\ Started

\* ------------------------------------------------------------------ claims

\* C1 (as stated): a CONTINUE of the last child is reported as CONTINUE, a
\* CONTINUE of any other child as REPEAT, and the next invocation then
\* starts with that same child again (looked at in a campaign where Reset()
\* was never called).
C1_SameChildAgain ==
  /\ (Reported /\ calls > 0 /\ ActionOf(child_mod) = CONTINUE)
       => ActionOf(result) = IF applied = Size - 1 THEN CONTINUE ELSE REPEAT
  /\ (Reinvoked /\ FirstCampaign /\ calls > 0 /\ prev_child >= 0
        /\ prev_mod = CONTINUE /\ prev_child /= Size - 1)
       => first = prev_child

\* C1 (amended): a CONTINUE of the last child is reported as CONTINUE, a
\* CONTINUE of any other child as REPEAT with the cursor left on that child,
\* and the next invocation starts with the child after it.
C1_NextChildAfterContinue ==
  /\ (Reported /\ calls > 0 /\ ActionOf(child_mod) = CONTINUE)
       => /\ ActionOf(result) = IF applied = Size - 1 THEN CONTINUE ELSE REPEAT
          /\ step = applied
  /\ (Reinvoked /\ calls > 0 /\ prev_child >= 0
        /\ prev_mod = CONTINUE /\ prev_child /= Size - 1)
       => first = prev_child + 1

C1_Witness ==
  /\ Reported /\ Reinvoked /\ calls > 0
  /\ prev_mod = CONTINUE /\ prev_child >= 0 /\ prev_child < Size - 1
  /\ first = prev_child + 1

\* C2 (as stated): when a non-empty sequence reports NONE, every child's
\* most recent application returned NONE with no mesh change since (looked
\* at in a campaign where Reset() was never called).
C2_FixedPoint ==
  (Reported /\ FirstCampaign /\ Size > 0 /\ ActionOf(result) = NONE)
    => \A i \in 1..Size : settled[i]

\* C2 (amended): when a non-empty sequence reports NONE, the children from
\* the one the invocation started with up to the last of the list were each
\* applied once in that invocation and returned NONE, with no mesh change in
\* between; nothing is implied for the children before the starting cursor.
C2_NoneSinceStart ==
  (Reported /\ Size > 0 /\ ActionOf(result) = NONE)
    => /\ applied = Size - 1
       /\ ActionOf(child_mod) = NONE
       /\ calls = Size - first
       /\ \A i \in (first + 1)..Size : settled[i]

C2_Witness ==
  /\ Reported /\ Size > 1 /\ ActionOf(result) = NONE
  /\ first > 0 /\ applied = Size - 1
  /\ ~settled[1]

\* C3: every invocation returns, and a driver that re-invokes the sequence
\* while it reports CONTINUE or REPEAT eventually receives NONE or STOP, the
\* children returning CONTINUE/REPEAT finitely often.
C3_DriverTerminates ==
  /\ (pc = "next_step") ~> (pc = "idle")
  /\ <>(Reported /\ ActionOf(result) \in {NONE, STOP})

C3_Witness ==
  /\ Reported /\ Reinvoked
  /\ prev_mod \in {CONTINUE, REPEAT}
  /\ ActionOf(result) \in {NONE, STOP}

\* C4: an invocation begun when no child can change anything any more makes
\* at most Size child calls and reports NONE, from any cursor position.
C4_QuiescentNone ==
  (Started /\ quiet_start)
    => /\ calls <= Size
       /\ pc = "next_step" => calls < Size
       /\ pc = "idle" => result = NONE

C4_Witness ==
  /\ Reported /\ quiet_start /\ Reinvoked
  /\ Size > 1 /\ calls = Size /\ result = NONE

\* C5: a STOP of the applied child, last of the list or not, ends the
\* invocation at once with STOP.
C5_StopPropagates ==
  (Started /\ calls > 0 /\ ActionOf(child_mod) = STOP)
    => pc = "idle" /\ ActionOf(result) = STOP

C5_Witness ==
  /\ Reported /\ calls > 0 /\ ActionOf(child_mod) = STOP
  /\ applied < Size - 1 /\ ActionOf(result) = STOP

\* C6: a REPEAT of the applied child is reported as REPEAT and the very
\* next invocation applies that same child first, at every position.
C6_RepeatSameChild ==
  /\ (Reported /\ calls > 0 /\ ActionOf(child_mod) = REPEAT)
       => result = child_mod /\ step = applied - 1
  /\ (Reinvoked /\ calls > 0 /\ prev_child >= 0 /\ prev_mod = REPEAT)
       => first = prev_child

C6_Witness ==
  /\ Reinvoked /\ calls > 0 /\ Size > 1
  /\ prev_mod = REPEAT /\ prev_child = 0 /\ first = 0

\* C7 (as stated): after Reset() every child is reset and the cursor is 0,
\* and the first child the next invocation applies is the one at index 0.
C7_ResetStartsOver ==
  /\ phase = "reset"
       => step = 0 /\ changes_left = MaxChanges
  /\ (phase = "fresh" /\ calls > 0) => first = 0

\* C8 (as stated): the info bits of the child result that ends an
\* invocation are the info bits of the sequence's result, for all four
\* actions (looked at in a campaign where Reset() was never called).
C8_InfoCarried ==
  (Reported /\ FirstCampaign /\ calls > 0) => InfoOf(result) = InfoOf(child_mod)

\* C8 (amended): the info bits of the ending child's result are those of
\* the sequence's result when the child returned CONTINUE or REPEAT; after
\* NONE or STOP the sequence's result has no info bit set.
C8_InfoCarriedOnChange ==
  (Reported /\ calls > 0)
    => InfoOf(result) = IF ActionOf(child_mod) \in {CONTINUE, REPEAT}
                        THEN InfoOf(child_mod) ELSE 0

C8_Witness ==
  /\ Reported /\ calls > 0 /\ applied < Size - 1
  /\ child_mod = CONTINUE + REFINED
  /\ result = REPEAT + REFINED

\* The element of the mesh the last ThresholdRefiner call was given that
\* worker r marked as its k-th.
MarkedElement(r, k) == pre.elems[r][marked_elements[r][k] + 1]

\* The marked-element count of that call, summed over the workers.
MarkedCount ==
  ReduceInt([q \in Ranks |-> Len(marked_elements[q])], Ranks)

\* That call was made with the global element count at or above the cap.
CalledAtCap == GetGlobalNE(pre.elems, Ranks) >= conf.max_elements

\* That call found the aggregate error norm at or below the goal (the
\* estimator then holds the errors the call read).
CalledAtGoal ==
  /\ ~CalledAtCap
  /\ GetNorm(est.err, conf.total_norm_p, Ranks) <= conf.total_err_goal

\* C9: ThresholdRefiner::ApplyImpl returns STOP exactly when the global
\* element count is at the cap, or the aggregate error is at the goal, or no
\* worker marked an element, and then leaves the mesh as it was; otherwise
\* it refines the marked elements and returns CONTINUE + REFINED; it returns
\* nothing else.
C9_StopOrRefine ==
  pre.called =>
    \A r \in Ranks :
      /\ ref_mod[r] \in {STOP, CONTINUE + REFINED}
      /\ ref_mod[r] = STOP <=> (CalledAtCap \/ CalledAtGoal \/ MarkedCount = 0)
      /\ ref_mod[r] = STOP
           => mesh.sequence = pre.sequence /\ mesh.elems = pre.elems
      /\ ref_mod[r] = CONTINUE + REFINED
           => /\ mesh.sequence = pre.sequence + 1
              /\ mesh.elems = GeneralRefinement(pre.elems, marked_elements,
                                                Ranks)
              /\ GetGlobalNE(mesh.elems, Ranks)
                   = GetGlobalNE(pre.elems, Ranks) + MarkedCount

C9_Witness ==
  /\ pre.called /\ mesh.par
  /\ ~CalledAtCap /\ ~CalledAtGoal /\ MarkedCount = 0
  /\ \A r \in Ranks : ref_mod[r] = STOP
  /\ mesh.sequence = pre.sequence /\ mesh.sequence > 0

\* C10 (as stated): on a conforming and on a non-conforming mesh, with or
\* without windows, no element of depth amr_levels or more is marked.
C10_DepthCapBoundsMarking ==
  pre.called =>
    \A r \in Ranks : \A k \in 1..Len(marked_elements[r]) :
      GetElementDepth(MarkedElement(r, k)) < conf.amr_levels

\* Some worker holds the two children of a bisected element.
HasSiblings(elems) ==
  \E r \in Ranks : \E i \in 1..Len(elems[r]) : Siblings(elems[r], i)

\* The mesh is as the operator applied last was given it.
MeshUntouched ==
  mesh.elems = last_call.elems /\ mesh.sequence = last_call.sequence

\* C11: ThresholdDerefiner::ApplyImpl on a conforming mesh returns NONE,
\* reads no errors and leaves the mesh and its sequence number as they were;
\* on a non-conforming mesh it returns CONTINUE + DEREFINED exactly when
\* DerefineByError coarsened at least one element, and NONE otherwise.
C11_DerefinerConformingNone ==
  last_call.op = "derefiner" =>
    \A r \in Ranks :
      /\ ~mesh.nc => /\ deref_mod[r] = NONE
                     /\ ~last_call.read
                     /\ MeshUntouched
      /\ mesh.nc => /\ deref_mod[r] \in {NONE, CONTINUE + DEREFINED}
                    /\ deref_mod[r] = CONTINUE + DEREFINED
                         <=> /\ GetGlobalNE(mesh.elems, Ranks)
                                  < GetGlobalNE(last_call.elems, Ranks)
                             /\ mesh.sequence = last_call.sequence + 1
                    /\ deref_mod[r] = NONE <=> MeshUntouched

C11_Witness ==
  /\ last_call.op = "derefiner"
  /\ ~mesh.nc /\ HasSiblings(last_call.elems) /\ dconf.threshold > 0
  /\ \A r \in Ranks : deref_mod[r] = NONE
  /\ MeshUntouched

\* C12: Rebalancer::ApplyImpl redistributes the mesh and returns
\* CONTINUE + REBALANCED exactly when the mesh is distributed and
\* non-conforming, on every invocation; otherwise it returns NONE and leaves
\* the mesh as it was.
C12_RebalanceIffParNonconforming ==
  last_call.op = "rebalancer" =>
    \A r \in Ranks :
      IF mesh.par /\ mesh.nc
      THEN /\ reb_mod[r] = CONTINUE + REBALANCED
           /\ mesh.elems = Rebalance(last_call.elems, Ranks)
           /\ mesh.sequence = last_call.sequence + 1
      ELSE /\ reb_mod[r] = NONE
           /\ MeshUntouched

\* the mesh given was balanced already, after earlier changes
C12_Witness ==
  /\ last_call.op = "rebalancer" /\ mesh.par /\ mesh.nc
  /\ last_call.sequence >= 1
  /\ last_call.elems = Rebalance(last_call.elems, Ranks)
  /\ \A r \in Ranks : reb_mod[r] = CONTINUE + REBALANCED
  /\ mesh.sequence = last_call.sequence + 1

\* C13: in a distributed run all workers of a ThresholdRefiner::ApplyImpl
\* call get the same value, threshold and reduced marked count (the count
\* over all workers, until Reset() clears it), so all or none refine: a
\* worker that marked nothing itself returns CONTINUE + REFINED whenever
\* some worker marked an element (and neither the element cap nor the error
\* goal stopped the call).
C13_WorkersAgree ==
  (pre.called /\ mesh.par) =>
    \A r \in Ranks :
      /\ \A q \in Ranks : /\ ref_mod[q] = ref_mod[r]
                          /\ threshold[q] = threshold[r]
                          /\ num_marked_elements[q] = num_marked_elements[r]
      /\ (~CalledAtCap /\ ~CalledAtGoal)
           => /\ current_sequence[r] = pre.sequence
                   => num_marked_elements[r] = MarkedCount
              /\ MarkedCount > 0 => ref_mod[r] = CONTINUE + REFINED

C13_Witness ==
  /\ pre.called /\ mesh.par
  /\ marked_elements[1] /= <<>> /\ marked_elements[2] = <<>>
  /\ Len(pre.elems[2]) > 0
  /\ ref_mod[2] = CONTINUE + REFINED
  /\ mesh.sequence = pre.sequence + 1

\* C14: the local errors ThresholdRefiner or ThresholdDerefiner reads from
\* the estimator were computed for the sequence number the mesh has at the
\* call, with one entry per local element of every worker, whatever refine,
\* derefine, rebalance and Reset() steps came before.
C14_ErrorsNeverStale ==
  last_call.read =>
    /\ last_call.err_sequence = last_call.sequence
    /\ \A r \in Ranks :
         Len(last_call.local_err[r]) = Len(last_call.elems[r])

\* the derefiner reads the errors first thing in the invocation after the
\* one in which the refiner read them and refined
C14_Witness ==
  /\ last_call.op = "derefiner" /\ last_call.read
  /\ pre.called /\ pre.asked
  /\ last_call.sequence = pre.sequence + 1
  /\ GetGlobalNE(last_call.elems, Ranks) > GetGlobalNE(pre.elems, Ranks)
  /\ Reinvoked /\ calls = 1

\* The solution of x + lambda = alpha, y + lambda = beta, x + y = g.
ClosedForm(alpha, beta, g) ==
  [sol |-> <<Rat(alpha - beta + g, 2), Rat(beta - alpha + g, 2)>>,
   lambda |-> Rat(alpha + beta - g, 2)]

Zero == RInt(0)

\* C15: on A = I, B = [1 1], f = (alpha, beta) and constraint right-hand
\* side g, the Schur-complement solver and the elimination solver both
\* return x = (alpha - beta)/2 + g/2, y = (beta - alpha)/2 + g/2 and
\* lambda = (alpha + beta)/2 - g/2, for g = 0 and g /= 0, and the errors
\* reported against truex, truey and truelambda are zero.
C15_SchurEliminationClosedForm ==
  solved.solver \in {"Schur", "Elimination"} =>
    LET alpha == saddle.alpha
        beta == saddle.beta
        g == solved.dualrhs
    IN /\ solved.sol = ClosedForm(alpha, beta, g).sol
       /\ solved.lambda = ClosedForm(alpha, beta, g).lambda
       /\ solved.sol[1] = RAdd(ClosedForm(alpha, beta, 0).sol[1], Rat(g, 2))
       /\ solved.sol[2] = RAdd(ClosedForm(alpha, beta, 0).sol[2], Rat(g, 2))
       /\ solved.lambda = RSub(ClosedForm(alpha, beta, 0).lambda, Rat(g, 2))
       /\ solved.serr = <<Zero, Zero>>
       /\ solved.lerr = Zero

C15_Witness ==
  /\ solved.solver = "Elimination"
  /\ saddle.alpha = TestAlpha /\ saddle.beta = TestBeta
  /\ solved.dualrhs = 1
  /\ solved.sol = <<Rat(7, 2), Rat(-5, 2)>>
  /\ solved.lambda = Rat(1, 2)
  /\ solved.lerr = Zero

\* C16: on the test's system (f = (4, -2)) with g = 0 and g = 1, the
\* penalty solver's error in each primal unknown and in the multiplier is
\* (alpha + beta - g) / (2 (1 + 2 pen)) in size: below 1/pen, in proportion
\* to 1/pen, and never zero, for each pen of the test.
C16_PenaltyErrorBelowInversePen ==
  (/\ solved.solver = "Penalty"
   /\ saddle.alpha = TestAlpha /\ saddle.beta = TestBeta
   /\ solved.dualrhs \in {0, 1}) =>
    LET size == Rat(saddle.alpha + saddle.beta - solved.dualrhs,
                    2 * (1 + 2 * solved.pen))
    IN /\ solved.pen \in Penalties
       /\ solved.serr = <<RSub(Zero, size), RSub(Zero, size)>>
       /\ solved.lerr = size
       /\ size /= Zero
       /\ \A e \in {solved.serr[1], solved.serr[2], solved.lerr} :
            RAbsLess(e, Rat(1, solved.pen)) /\ e /= Zero

C16_Witness ==
  /\ solved.solver = "Penalty" /\ solved.pen = 1000000
  /\ saddle.alpha = TestAlpha /\ saddle.beta = TestBeta
  /\ solved.dualrhs = 1
  /\ solved.lerr = Rat(1, 4000002)
  /\ RAbsLess(solved.lerr, Rat(1, solved.pen))

\* Local element el of worker r is among those the last ThresholdRefiner
\* call marked.
IsMarked(r, el) ==
  \E k \in 1..Len(marked_elements[r]) : marked_elements[r][k] = el

\* The mean of a coordinate over the four vertices of an element, (a + b)/2
\* for an element reaching from a to b, lies strictly between lo and hi.
StrictlyInside(a, b, lo, hi) == a + b > 2 * lo /\ a + b < 2 * hi

\* The error the last call read for element e is above the threshold it
\* computed, e is less deep than amr_levels, and on each axis e's mean
\* coordinate is strictly inside the window or e is less deep than the
\* window's depth limit.
SelectedInWindows(e, e_err, thr) ==
  /\ e_err * thr.den > thr.num
  /\ e.depth < conf.amr_levels
  /\ (StrictlyInside(e.y0, e.y1, conf.ymin, conf.ymax)
        \/ e.depth < conf.yRange_levels)
  /\ (StrictlyInside(e.x0, e.x1, conf.xmin, conf.xmax)
        \/ e.depth < conf.xRange_levels)

\* C17: when ThresholdRefiner::ApplyImpl reaches its marking loop on a
\* non-conforming mesh with a window in x or in y, it marks an element
\* exactly when its error is above the threshold, its depth is below
\* amr_levels, and on each axis its mean coordinate is strictly inside the
\* window or its depth is below the window's depth limit; the marked
\* elements are listed by ascending local index, each once.  On a
\* conforming mesh an element is marked exactly when its error is above the
\* threshold, whatever the windows.
C17_WindowRestrictsMarking ==
  (pre.called /\ last_call.read) =>
    \A r \in Ranks :
      LET loc == pre.elems[r]
          err == last_call.local_err[r]
          M == marked_elements[r]
      IN /\ \A k \in 1..Len(M) : M[k] \in 0..(Len(loc) - 1)
         /\ \A j, k \in 1..Len(M) : j < k => M[j] < M[k]
         /\ (mesh.nc /\ (conf.xRange \/ conf.yRange)) =>
              \A el \in 0..(Len(loc) - 1) :
                IsMarked(r, el)
                  <=> SelectedInWindows(loc[el + 1], err[el + 1], threshold[r])
         /\ ~mesh.nc =>
              \A el \in 0..(Len(loc) - 1) :
                IsMarked(r, el)
                  <=> err[el + 1] * threshold[r].den > threshold[r].num

\* An element above the threshold and less deep than amr_levels is left
\* unmarked because its mean x is on the edge of the window, while another
\* element is marked.
C17_Witness ==
  /\ pre.called /\ last_call.read /\ mesh.nc /\ conf.xRange
  /\ \E r \in Ranks :
       /\ \E el \in 0..(Len(pre.elems[r]) - 1) :
            LET e == pre.elems[r][el + 1]
            IN /\ ~IsMarked(r, el)
               /\ last_call.local_err[r][el + 1] * threshold[r].den
                    > threshold[r].num
               /\ e.depth < conf.amr_levels
               /\ e.depth >= conf.xRange_levels
               /\ e.x0 + e.x1 = 2 * conf.xmin
       /\ Len(marked_elements[r]) > 0

\* The state of the mesh against the invocation of the sequence under way
\* or returned last: no child has changed the mesh while the invocation
\* runs; a reported NONE or STOP leaves the sequence number of the entry; a
\* reported CONTINUE or REPEAT comes with one change, made by the child
\* applied last, which was given the mesh as it was at the entry.
OneChangePerInvocation ==
  entry >= 0 =>
    /\ pc = "next_step" => mesh.sequence = entry
    /\ (pc = "idle" /\ ActionOf(result) \in {NONE, STOP})
         => mesh.sequence = entry
    /\ (pc = "idle" /\ ActionOf(result) \in {CONTINUE, REPEAT})
         => /\ calls > 0
            /\ mesh.sequence = entry + 1
            /\ last_call.op = sequence[applied + 1].kind
            /\ last_call.sequence = entry
            /\ ActionOf(child_mod) = CONTINUE

\* C18: with ThresholdRefiner, ThresholdDerefiner and Rebalancer children,
\* an invocation of MeshOperatorSequence::ApplyImpl that reports NONE or
\* STOP leaves the mesh sequence number as it was at the entry, one that
\* reports CONTINUE or REPEAT has had exactly one child change the mesh, the
\* child applied last; and no step, Reset() included, lowers the mesh
\* sequence number.
C18_AtMostOneChange ==
  /\ []OneChangePerInvocation
  /\ [][mesh'.sequence \in {mesh.sequence, mesh.sequence + 1}]_vars

\* A second or later invocation in which the first child applied returned
\* NONE and the next one changed the mesh, reported as REPEAT.
C18_Witness ==
  /\ pc = "idle" /\ entry >= 1 /\ calls = 2
  /\ ActionOf(result) = REPEAT
  /\ mesh.sequence = entry + 1
  /\ last_call.sequence = entry

====
